---- MODULE Spec2Model ----
(***************************************************************************)
(* LSEQ sequence CRDT (src/src/lseq.rs): replicas holding a sorted list of *)
(* entries (identifier, dot, payload), local index-based edits that emit   *)
(* operations, and application of operations received from other sites.   *)
(*                                                                         *)
(* The identifier module (lseq/ident.rs: Identifier, IdentGen) is modelled *)
(* from the specification, spec.md sections 3, 4.1 and 4.2.                *)
(***************************************************************************)
EXTENDS Integers, Sequences, FiniteSets, TLC

VARIABLES
    site,       \* site[r]: the SiteId replica r was constructed with
    seq,        \* seq[r]: LSeq.seq, the entries of replica r
    strategy,   \* strategy[r]: IdentGen's per-depth strategy, a partial map
    counter,    \* counter[r]: LSeq.dot.counter
    ops,        \* every operation emitted so far (in flight or delivered)
    applied,    \* history: applied[r], the operations replica r has applied
    causal,     \* history: causal[r], no Delete was applied before its Insert
    seen,       \* history: <<d1, d2>> when the emitter of the operation with
                \* dot d2 had applied the operation with dot d1
    last        \* history: the latest local call, until a replica applies an
                \* operation of another site

vars == <<site, seq, strategy, counter, ops, applied, causal, seen, last>>

----------------------------------------------------------------------------
(* Bounds of the model *)

\* Operations emitted over all replicas: local calls are made while fewer
\* than MaxOps operations have been emitted.
MaxOps == 4

\* The largest step the allocator's random source draws in the runs explored.
MaxStep == 1

Replicas == {1, 2}

\* The site ids of the two replicas: 1 and 2 (0 is reserved for the
\* sentinels), or 0 and 1 as in the tests.
ProperSites == <<1, 2>>
TestSites == <<0, 1>>

\* Callers insert distinct payloads: the payload type is opaque to the code
\* (T: Clone), so the k-th emitted operation carries the k-th payload.
Payloads == <<"a", "b", "c", "d", "e", "f">>

----------------------------------------------------------------------------
(* Identifiers *)

\* Bits of the root's width.
INITIAL_BASE == 3

\* Largest step away from the chosen boundary.
BOUNDARY == 10

\* The site embedded in the sentinels: SiteId::default().
InvalidSite == 0

RECURSIVE Pow2(_)
Pow2(n) == IF n = 0 THEN 1 ELSE 2 * Pow2(n - 1)

\* Number of children of a node at zero-based depth k.
Width(k) == Pow2(INITIAL_BASE + k)

\* IdentGen::lower and IdentGen::upper.
Lower == << <<0, InvalidSite>> >>
Upper == << <<Width(0) - 1, InvalidSite>> >>

\* Order of positions: index first, then site.
LessPos(x, y) == x[1] < y[1] \/ (x[1] = y[1] /\ x[2] < y[2])

\* Order of identifiers: lexicographic, a strict prefix is smaller.
Less(a, b) ==
    \E k \in 1..Len(b) :
        /\ k <= Len(a) + 1
        /\ \A j \in 1..(k - 1) : a[j] = b[j]
        /\ (k = Len(a) + 1 \/ LessPos(a[k], b[k]))

Min(a, b) == IF a < b THEN a ELSE b
Max(a, b) == IF a < b THEN b ELSE a

----------------------------------------------------------------------------
(* Identifier allocation (spec.md 4.2) *)

\* Index of p at depth d, 0 when p has no position there.
Lo(p, d) == IF d < Len(p) THEN p[d + 1][1] ELSE 0

\* Index of q at depth d, width(d) when q has no position there.
Hi(q, d) == IF d < Len(q) THEN q[d + 1][1] ELSE Width(d)

\* Room for a new index at depth d.
Room(p, q, d) == Hi(q, d) - Lo(p, d) > 1

\* The first depth with room.
TargetDepth(p, q) ==
    CHOOSE d \in 0..Max(Len(p), Len(q)) :
        /\ Room(p, q, d)
        /\ \A e \in 0..(d - 1) : ~Room(p, q, e)

\* The steps the allocator may draw at the target depth.
Steps(p, q) ==
    LET D == TargetDepth(p, q)
    IN  1..Min(BOUNDARY, Hi(q, D) - Lo(p, D) - 1)

\* Mutant of NewIndex: boundary-plus starts counting at the lower bound itself.
NewIndex_FromBound(strat, lo, hi, step) ==
    IF strat = "plus" THEN lo + step - 1 ELSE hi - step

\* Mutant of NewIndex: boundary-minus starts counting at the upper bound
\* itself.
NewIndex_ToBound(strat, lo, hi, step) ==
    IF strat = "plus" THEN lo + step ELSE hi - step + 1

\* boundary-plus counts from the lower bound, boundary-minus from the upper.
NewIndex(strat, lo, hi, step) ==
    IF strat = "plus" THEN lo + step ELSE hi - step

\* p's positions at the depths below D, p extended by the minimum position
\* where it has none.
Prefix(p, D) ==
    [k \in 1..D |-> IF k <= Len(p) THEN p[k] ELSE <<0, InvalidSite>>]

\* Mutant of AllocAt: every position is stamped with the allocating site.
AllocAt_Restamp(p, q, D, self, strat, step) ==
    Append([k \in 1..D |-> <<Prefix(p, D)[k][1], self>>],
           <<NewIndex(strat, Lo(p, D), Hi(q, D), step), self>>)

\* The identifier made at target depth D: the prefix, then the new position.
AllocAt(p, q, D, self, strat, step) ==
    Append(Prefix(p, D), <<NewIndex(strat, Lo(p, D), Hi(q, D), step), self>>)

\* The identifier alloc(p, q) returns at site self for a strategy and a step.
AllocId(p, q, self, strat, step) ==
    AllocAt(p, q, TargetDepth(p, q), self, strat, step)

\* The strategy used at depth D: the stored one, else the one drawn now.
StrategyAt(strats, D, drawn) ==
    IF D \in DOMAIN strats THEN strats[D] ELSE drawn

\* Mutant of StrategyAfter: the map is grown like a vector, every depth up to
\* D that has no strategy gets the one drawn now.
StrategyAfter_AllDepths(strats, D, drawn) ==
    [d \in (0..D) \cup DOMAIN strats |->
        IF d \in DOMAIN strats THEN strats[d] ELSE drawn]

\* The strategy map after an allocation at depth D.
StrategyAfter(strats, D, drawn) ==
    IF D \in DOMAIN strats THEN strats ELSE (D :> drawn) @@ strats

----------------------------------------------------------------------------
(* The sequence container *)

NoOp == [op |-> "None"]

Ids(s) == {s[i].id : i \in 1..Len(s)}

PayloadsOf(s) == [i \in 1..Len(s) |-> s[i].c]

\* slice::binary_search_by over e.id.cmp(ix): <<TRUE, i>> for a hit at the
\* zero-based index i, <<FALSE, i>> for the insertion point i.
RECURSIVE Search(_, _, _, _)
Search(s, ix, left, right) ==
    IF left >= right THEN <<FALSE, left>>
    ELSE LET mid == left + ((right - left) \div 2)
         IN  IF Less(s[mid + 1].id, ix) THEN Search(s, ix, mid + 1, right)
             ELSE IF Less(ix, s[mid + 1].id) THEN Search(s, ix, left, mid)
             ELSE <<TRUE, mid>>

BinarySearch(s, ix) == Search(s, ix, 0, Len(s))

\* Vec::insert(i, e) and Vec::remove(i), i zero-based.
VecInsert(s, i, e) == SubSeq(s, 1, i) \o <<e>> \o SubSeq(s, i + 1, Len(s))
VecRemove(s, i) == SubSeq(s, 1, i) \o SubSeq(s, i + 2, Len(s))

\* Mutant of Insert: the entry goes one place after the insertion point.
Insert_OffByOne(s, ix, dot, c) ==
    LET res == BinarySearch(s, ix)
    IN  IF res[1] THEN s
        ELSE VecInsert(s, Min(res[2] + 1, Len(s)),
                       [id |-> ix, dot |-> dot, c |-> c])

\* Mutant of Insert: the entry is pushed at the end.
Insert_Push(s, ix, dot, c) ==
    LET res == BinarySearch(s, ix)
    IN  IF res[1] THEN s
        ELSE Append(s, [id |-> ix, dot |-> dot, c |-> c])

\* Mutant of Insert: no test for an identifier already present.
Insert_NoCheck(s, ix, dot, c) ==
    LET res == BinarySearch(s, ix)
    IN  VecInsert(s, res[2], [id |-> ix, dot |-> dot, c |-> c])

\* Mutant of Insert: an entry already present is overwritten.
Insert_Overwrite(s, ix, dot, c) ==
    LET res == BinarySearch(s, ix)
    IN  IF res[1]
        THEN [s EXCEPT ![res[2] + 1] = [id |-> ix, dot |-> dot, c |-> c]]
        ELSE VecInsert(s, res[2], [id |-> ix, dot |-> dot, c |-> c])

\* LSeq::insert
Insert(s, ix, dot, c) ==
    LET res == BinarySearch(s, ix)
    IN  IF res[1] THEN s
        ELSE VecInsert(s, res[2], [id |-> ix, dot |-> dot, c |-> c])

\* Mutant of Delete: the result of the search is used as an index without
\* looking at whether it is a hit.
Delete_AtInsertionPoint(s, ix) ==
    LET res == BinarySearch(s, ix)
    IN  IF res[2] < Len(s) THEN VecRemove(s, res[2]) ELSE s

\* LSeq::delete
Delete(s, ix) ==
    LET res == BinarySearch(s, ix)
    IN  IF res[1] THEN VecRemove(s, res[2]) ELSE s

\* Mutant of Apply: a Delete removes the entry its remote dot names and no
\* other.
Apply_CheckDot(s, o) ==
    IF o.op = "Insert" THEN Insert(s, o.id, o.dot, o.c)
    ELSE IF \E i \in 1..Len(s) : s[i].id = o.id /\ s[i].dot = o.remote
         THEN Delete(s, o.id)
         ELSE s

\* CmRDT::apply
Apply(s, o) ==
    IF o.op = "Insert" THEN Insert(s, o.id, o.dot, o.c)
    ELSE Delete(s, o.id)

----------------------------------------------------------------------------
(* Replicas *)

\* Mutant of Dot: the dot the replica was constructed with, Dot::new(id, 0).
Dot_Initial(r) == <<site[r], 0>>

\* self.dot of replica r.
Dot(r) == <<site[r], counter[r]>>

\* last: the replica, the call ("insert", "delete", or "panic" for an
\* insert_index a failed assert aborted), its index, the entries before it,
\* the operation it returned, and for a delete_index that directly follows an
\* insert_index of the same index (rt), the payloads before that insert.
NoCall ==
    [r |-> 0, kind |-> "none", ix |-> 0, pre |-> <<>>, op |-> NoOp,
     rt |-> FALSE, rtPre |-> <<>>]

Emitted == counter[1] + counter[2]

\* The neighbours insert_index hands to the allocator for index ix.
PrevOf(s, ix) ==
    IF Len(s) <= ix
    THEN (IF Len(s) > 0 THEN s[Len(s)].id ELSE Lower)
    ELSE (IF ix >= 1 THEN s[ix].id ELSE Lower)

NextOf(s, ix) == IF Len(s) <= ix THEN Upper ELSE s[ix + 1].id

\* Mutant of EntryAt: the first entry, whatever the index.
EntryAt_First(s, ix) == s[1]

\* self.seq[ix].clone() of delete_index.
EntryAt(s, ix) == s[ix + 1]

\* The two asserts of insert_index, made on the branch that has a successor.
AssertsHold(s, ix, a) ==
    Len(s) <= ix \/ (Less(PrevOf(s, ix), a) /\ Less(a, NextOf(s, ix)))

\* LSeq::new for each replica.
InitWith(ids) ==
    /\ site = [r \in Replicas |-> ids[r]]
    /\ seq = [r \in Replicas |-> <<>>]
    /\ strategy = [r \in Replicas |-> <<>>]
    /\ counter = [r \in Replicas |-> 0]
    /\ ops = {}
    /\ applied = [r \in Replicas |-> {}]
    /\ causal = [r \in Replicas |-> TRUE]
    /\ seen = {}
    /\ last = NoCall

Init == InitWith(ProperSites)

\* The replicas of the tests: SiteId::new(0) and SiteId::new(1).
InitZero == InitWith(TestSites)

\* LSeq::insert_index(ix, c); drawn and step are the allocator's random draws.
InsertIndex(r, ix, c, drawn, step) ==
    LET s == seq[r]
        prev == PrevOf(s, ix)
        next == NextOf(s, ix)
        D == TargetDepth(prev, next)
        strat == StrategyAt(strategy[r], D, drawn)
        a == AllocId(prev, next, site[r], strat, step)
        op == [op |-> "Insert", id |-> a, dot |-> Dot(r), c |-> c]
        call == [r |-> r, kind |-> "insert", ix |-> ix, pre |-> s, op |-> op,
                 rt |-> FALSE, rtPre |-> <<>>]
    IN  /\ step \in Steps(prev, next)
        /\ D \in DOMAIN strategy[r] => drawn = strategy[r][D]
        /\ strategy' = [strategy EXCEPT ![r] = StrategyAfter(@, D, drawn)]
        /\ IF AssertsHold(s, ix, a)
           THEN /\ counter' = [counter EXCEPT ![r] = @ + 1]
                /\ seq' = [seq EXCEPT ![r] = Apply(s, op)]
                /\ ops' = ops \cup {op}
                /\ applied' = [applied EXCEPT ![r] = @ \cup {op}]
                /\ seen' = seen \cup {<<x.dot, op.dot>> : x \in applied[r]}
                /\ last' = call
           ELSE /\ last' = [call EXCEPT !.kind = "panic"]
                /\ UNCHANGED <<counter, seq, ops, applied, seen>>
        /\ UNCHANGED <<site, causal>>

\* Mutant of DeleteIndex: the counter is incremented before the range test.
DeleteIndex_Bump(r, ix) ==
    LET s == seq[r]
        follows == last.r = r /\ last.kind = "insert" /\ last.ix = ix
        call == [r |-> r, kind |-> "delete", ix |-> ix, pre |-> s,
                 op |-> NoOp, rt |-> follows,
                 rtPre |-> IF follows THEN PayloadsOf(last.pre) ELSE <<>>]
    IN  IF ix >= Len(s)
        THEN /\ last' = call
             /\ counter' = [counter EXCEPT ![r] = @ + 1]
             /\ UNCHANGED <<site, seq, strategy, ops, applied, causal, seen>>
        ELSE LET data == EntryAt(s, ix)
                 op == [op |-> "Delete", id |-> data.id, remote |-> data.dot,
                        dot |-> Dot(r)]
             IN  /\ counter' = [counter EXCEPT ![r] = @ + 1]
                 /\ seq' = [seq EXCEPT ![r] = Apply(s, op)]
                 /\ ops' = ops \cup {op}
                 /\ applied' = [applied EXCEPT ![r] = @ \cup {op}]
                 /\ seen' = seen \cup {<<x.dot, op.dot>> : x \in applied[r]}
                 /\ last' = [call EXCEPT !.op = op]
                 /\ UNCHANGED <<site, strategy, causal>>

\* LSeq::delete_index(ix)
DeleteIndex(r, ix) ==
    LET s == seq[r]
        follows == last.r = r /\ last.kind = "insert" /\ last.ix = ix
        call == [r |-> r, kind |-> "delete", ix |-> ix, pre |-> s,
                 op |-> NoOp, rt |-> follows,
                 rtPre |-> IF follows THEN PayloadsOf(last.pre) ELSE <<>>]
    IN  IF ix >= Len(s)
        THEN /\ last' = call
             /\ UNCHANGED <<site, seq, strategy, counter, ops, applied,
                            causal, seen>>
        ELSE LET data == EntryAt(s, ix)
                 op == [op |-> "Delete", id |-> data.id, remote |-> data.dot,
                        dot |-> Dot(r)]
             IN  /\ counter' = [counter EXCEPT ![r] = @ + 1]
                 /\ seq' = [seq EXCEPT ![r] = Apply(s, op)]
                 /\ ops' = ops \cup {op}
                 /\ applied' = [applied EXCEPT ![r] = @ \cup {op}]
                 /\ seen' = seen \cup {<<x.dot, op.dot>> : x \in applied[r]}
                 /\ last' = [call EXCEPT !.op = op]
                 /\ UNCHANGED <<site, strategy, causal>>

\* The Insert an applied Delete refers to has been applied before it.
InsertApplied(r, o) ==
    \E i \in applied[r] : i.op = "Insert" /\ i.id = o.id /\ i.dot = o.remote

\* A replica applies an operation emitted by another site: CmRDT::apply.
\* Operations arrive in any order, each at most once at a replica.
Deliver(r, o) ==
    /\ o \in ops \ applied[r]
    /\ seq' = [seq EXCEPT ![r] = Apply(@, o)]
    /\ applied' = [applied EXCEPT ![r] = @ \cup {o}]
    /\ causal' = [causal EXCEPT ![r] =
                     @ /\ (o.op = "Delete" => InsertApplied(r, o))]
    /\ last' = NoCall
    /\ UNCHANGED <<site, strategy, counter, ops, seen>>

Next ==
    \/ \E r \in Replicas, ix \in 0..(MaxOps + 1),
          drawn \in {"plus", "minus"}, step \in 1..MaxStep :
          /\ Emitted < MaxOps
          /\ ix <= Len(seq[r]) + 1
          /\ Emitted < Len(Payloads)
          /\ InsertIndex(r, ix, Payloads[Emitted + 1], drawn, step)
    \/ \E r \in Replicas, ix \in 0..MaxOps :
          Emitted < MaxOps /\ ix <= Len(seq[r]) /\ DeleteIndex(r, ix)
    \/ \E r \in Replicas, o \in ops : Deliver(r, o)

Spec == Init /\ [][Next]_vars

SpecZero == InitZero /\ [][Next]_vars

----------------------------------------------------------------------------
(* The older implementation (src/src/lseq/mod.rs) *)

\* Its entries are (identifier, clock, site, payload) and its operations carry
\* (site_id, clock) where the newer ones carry a dot; do_insert, do_delete,
\* apply and local_insert are those of lseq.rs line for line, so that Insert,
\* Delete, Apply, Deliver and InsertIndex stand for them here.

\* Mutant of ClampIx: an index past the end is clamped to the first element.
ClampIx_First(s, ix) == IF ix >= Len(s) THEN 0 ELSE ix

\* local_delete's clamp: ix = self.seq.len() - 1 when ix >= self.seq.len().
\* Evaluated for a non-empty s only (see LocalDelete).
ClampIx(s, ix) == IF ix >= Len(s) THEN Len(s) - 1 ELSE ix

\* LSeq::local_insert(ix, c)
LocalInsert(r, ix, c, drawn, step) == InsertIndex(r, ix, c, drawn, step)

\* LSeq::local_delete(ix). On an empty sequence every ix is >= len and the
\* clamp computes 0 - 1 in usize: a build with overflow checks panics there,
\* one without wraps to usize::MAX and panics at self.seq[ix]. Either way the
\* call panics before it changes anything.
LocalDelete(r, ix) ==
    LET s == seq[r]
        call == [r |-> r, kind |-> "delete", ix |-> ix, pre |-> s,
                 op |-> NoOp, rt |-> FALSE, rtPre |-> <<>>]
    IN  IF ix >= Len(s) /\ Len(s) = 0
        THEN /\ last' = [call EXCEPT !.kind = "panic"]
             /\ UNCHANGED <<site, seq, strategy, counter, ops, applied,
                            causal, seen>>
        ELSE LET data == EntryAt(s, ClampIx(s, ix))
                 op == [op |-> "Delete", id |-> data.id, remote |-> data.dot,
                        dot |-> Dot(r)]
             IN  /\ counter' = [counter EXCEPT ![r] = @ + 1]
                 /\ seq' = [seq EXCEPT ![r] = Apply(s, op)]
                 /\ ops' = ops \cup {op}
                 /\ applied' = [applied EXCEPT ![r] = @ \cup {op}]
                 /\ seen' = seen \cup {<<x.dot, op.dot>> : x \in applied[r]}
                 /\ last' = [call EXCEPT !.op = op]
                 /\ UNCHANGED <<site, strategy, causal>>

NextOld ==
    \/ \E r \in Replicas, ix \in 0..(MaxOps + 1),
          drawn \in {"plus", "minus"}, step \in 1..MaxStep :
          /\ Emitted < MaxOps
          /\ ix <= Len(seq[r]) + 1
          /\ Emitted < Len(Payloads)
          /\ LocalInsert(r, ix, Payloads[Emitted + 1], drawn, step)
    \/ \E r \in Replicas, ix \in 0..MaxOps :
          Emitted < MaxOps /\ ix <= Len(seq[r]) /\ LocalDelete(r, ix)
    \/ \E r \in Replicas, o \in ops : Deliver(r, o)

SpecOld == Init /\ [][NextOld]_vars

----------------------------------------------------------------------------
(* Properties *)

Sites == {site[r] : r \in Replicas}

Inserts == {o \in ops : o.op = "Insert"}
Deletes == {o \in ops : o.op = "Delete"}

\* Every identifier an emitted Insert carries, and the two sentinels.
KnownIds == {o.id : o \in Inserts} \cup {Lower, Upper}

IsStrictPrefix(p, q) == Len(p) < Len(q) /\ SubSeq(q, 1, Len(p)) = p

\* alloc(p, q) lies strictly between p and q at every site, for both
\* strategies and every step the allocator may draw.
AllocBetween(p, q) ==
    LET D == TargetDepth(p, q)
        n == Min(BOUNDARY, Hi(q, D) - Lo(p, D) - 1)
    IN  \A self \in Sites, strat \in {"plus", "minus"}, step \in 1..n :
            LET a == AllocAt(p, q, D, self, strat, step)
            IN  Less(p, a) /\ Less(a, q)

\* C1: alloc(p, q) is strictly between p and q. No insert_index call fails an
\* assert; the identifier of every insert_index call lies strictly between
\* the neighbours handed to the allocator; and for the sentinels and every
\* pair p < q made of a newly emitted identifier and any identifier emitted
\* so far or a sentinel, every identifier alloc(p, q) may return, at either
\* site, under either strategy and any permitted step, has p < r < q.
C1_AllocStrictlyBetween ==
    /\ last.kind # "panic"
    /\ ops = {} => AllocBetween(Lower, Upper)
    /\ last.kind = "insert" =>
         /\ Less(PrevOf(last.pre, last.ix), last.op.id)
         /\ Less(last.op.id, NextOf(last.pre, last.ix))
         /\ \A x \in KnownIds :
              /\ Less(x, last.op.id) => AllocBetween(x, last.op.id)
              /\ Less(last.op.id, x) => AllocBetween(last.op.id, x)

\* C1 witness: insert_index has allocated between p and q where p is a strict
\* prefix of q and q extends p by one position of index 1.
C1_Witness ==
    /\ last.kind = "insert"
    /\ LET p == PrevOf(last.pre, last.ix)
           q == NextOf(last.pre, last.ix)
       IN  /\ p # Lower
           /\ IsStrictPrefix(p, q)
           /\ Len(q) = Len(p) + 1
           /\ q[Len(q)][1] = 1
           /\ Less(p, last.op.id) /\ Less(last.op.id, q)

\* C1, second case: insert_index has allocated between p and q that carry the
\* same index and different sites at the first depth.
C1_WitnessSameIndex ==
    /\ last.kind = "insert"
    /\ LET p == PrevOf(last.pre, last.ix)
           q == NextOf(last.pre, last.ix)
       IN  /\ p[1][1] = q[1][1] /\ p[1][2] # q[1][2]
           /\ Less(p, last.op.id) /\ Less(last.op.id, q)

\* No identifier is carried by two emitted Inserts.
UniqueIds == \A o1, o2 \in Inserts : o1.id = o2.id => o1 = o2

\* C2: two replicas that have applied the same operations, each Delete after
\* the Insert it refers to, hold the same entries in the same order.
C2_Convergence ==
    \A a, b \in Replicas :
        (applied[a] = applied[b] /\ causal[a] /\ causal[b]) => seq[a] = seq[b]

\* C2 restricted to the runs in which no identifier was allocated twice.
C2_ConvergenceUniqueIds == UniqueIds => C2_Convergence

\* C2 case: both replicas have applied the same operations in causal order,
\* among them an Insert and a Delete of another site.
C2_Case ==
    /\ applied[1] = applied[2] /\ causal[1] /\ causal[2]
    /\ \E i \in Inserts, d \in Deletes :
         {i, d} \subseteq applied[1] /\ i.dot[1] # d.dot[1]

\* C5: no two Insert operations emitted by one replica carry the same
\* identifier.
C5_NoIdentifierTwice ==
    \A o1, o2 \in Inserts :
        (o1.dot[1] = o2.dot[1] /\ o1.dot # o2.dot) => o1.id # o2.id

\* C3: insert_at(i, x) on a replica holding len entries leaves len + 1
\* entries, x at index min(i, len), the previous entries around it unchanged
\* and in their previous order.
C3_InsertAtIndex ==
    last.kind = "insert" =>
        LET s == seq[last.r]
            i == Min(last.ix, Len(last.pre))
        IN  /\ Len(s) = Len(last.pre) + 1
            /\ s[i + 1].c = last.op.c
            /\ s[i + 1].id = last.op.id
            /\ VecRemove(s, i) = last.pre

\* C3 witness: the third of the inserts at 0, 1, 1 on an empty replica has put
\* its payload between the first two.
C3_Witness ==
    /\ last.kind = "insert" /\ last.ix = 1
    /\ PayloadsOf(last.pre) = <<"a", "b">>
    /\ PayloadsOf(seq[last.r]) = <<"a", "c", "b">>

\* C3, second case: an insert at an index past the end has appended.
C3_WitnessPastEnd ==
    /\ last.kind = "insert" /\ last.ix > Len(last.pre) /\ Len(last.pre) >= 1
    /\ seq[last.r][Len(last.pre) + 1].c = last.op.c

Sorted(s) == \A i \in 1..(Len(s) - 1) : Less(s[i].id, s[i + 1].id)

\* C4: every replica's entries are sorted strictly ascending by identifier.
C4_Sorted == \A r \in Replicas : Sorted(seq[r])

\* C4 witness: a replica holds entries of both sites after it has applied a
\* Delete.
C4_Witness ==
    \E r \in Replicas :
        /\ Len(seq[r]) >= 2
        /\ \E i, j \in 1..Len(seq[r]) : seq[r][i].dot[1] # seq[r][j].dot[1]
        /\ \E d \in applied[r] : d.op = "Delete"

\* Transitive closure of a relation given as a set of pairs.
RECURSIVE Closure(_)
Closure(R) ==
    LET R2 == R \cup {<<z[1][1], z[2][2]>> :
                         z \in {y \in R \X R : y[1][2] = y[2][1]}}
    IN  IF R2 = R THEN R ELSE Closure(R2)

\* o1 and o2 are causally independent: neither emitter had applied the other
\* operation, directly or through operations that depend on it.
Independent(o1, o2) ==
    /\ o1 # o2
    /\ <<o1.dot, o2.dot>> \notin Closure(seen)
    /\ <<o2.dot, o1.dot>> \notin Closure(seen)

\* The other operations replica r has applied that carry the identifier of o.
OthersWithId(r, o) == {x \in applied[r] : x # o /\ x.id = o.id}

Holds(s, o) ==
    \E i \in 1..Len(s) : s[i] = [id |-> o.id, dot |-> o.dot, c |-> o.c]

IndexOf(s, id) == CHOOSE i \in 1..Len(s) : s[i].id = id

\* C6: Inserts of different sites never carry the same identifier, and a
\* replica that has applied two concurrent Inserts of different sites (and no
\* other operation on their identifiers) holds both entries, ordered by
\* identifier.
C6_ConcurrentInserts ==
    \A o1, o2 \in Inserts :
        o1.dot[1] # o2.dot[1] =>
            /\ o1.id # o2.id
            /\ \A r \in Replicas :
                 ( /\ {o1, o2} \subseteq applied[r]
                   /\ Independent(o1, o2)
                   /\ OthersWithId(r, o1) = {} /\ OthersWithId(r, o2) = {}
                   /\ Less(o1.id, o2.id) )
                 => /\ Holds(seq[r], o1) /\ Holds(seq[r], o2)
                    /\ IndexOf(seq[r], o1.id) < IndexOf(seq[r], o2.id)

\* C6 witness: both replicas inserted at index 0 of the empty sequence, drew
\* the same index at depth 0, and each has applied both Inserts.
C6_Witness ==
    \E o1, o2 \in Inserts :
        /\ o1.dot[1] # o2.dot[1] /\ Independent(o1, o2)
        /\ Len(o1.id) = 1 /\ Len(o2.id) = 1 /\ o1.id[1][1] = o2.id[1][1]
        /\ \A r \in Replicas : applied[r] = {o1, o2} /\ Len(seq[r]) = 2
        /\ seq[1] = seq[2]

\* C7: applying an operation twice in a row leaves the state that applying it
\* once leaves.
C7_Idempotent ==
    \A r \in Replicas, o \in ops :
        Apply(Apply(seq[r], o), o) = Apply(seq[r], o)

\* C7 witness: an Insert of an identifier a replica lacks and a Delete of an
\* identifier it holds, so that the first application changes the state.
C7_Witness ==
    \E r \in Replicas, i \in Inserts, d \in Deletes :
        /\ i.id \notin Ids(seq[r]) /\ Apply(seq[r], i) # seq[r]
        /\ d.id \in Ids(seq[r]) /\ Apply(seq[r], d) # seq[r]

\* C8: two causally independent operations commute on every replica state.
C8_Commute ==
    \A r \in Replicas, o1, o2 \in ops :
        Independent(o1, o2) =>
            Apply(Apply(seq[r], o1), o2) = Apply(Apply(seq[r], o2), o1)

\* C8 restricted to the runs in which no identifier was allocated twice.
C8_CommuteUniqueIds == UniqueIds => C8_Commute

\* C8 case: an Insert of one site and a Delete of another are independent.
C8_Case ==
    \E i \in Inserts, d \in Deletes :
        Independent(i, d) /\ i.dot[1] # d.dot[1]

\* C9 as claimed: insert_at(i, x) directly followed by delete_at(i) leaves the
\* payloads that were there before the insert, for every index i.
C9_RoundTripAnyIndex ==
    (last.kind = "delete" /\ last.rt) =>
        PayloadsOf(seq[last.r]) = last.rtPre

\* C9 amended: insert_at(i, x) directly followed by delete_at(i) leaves the
\* payloads that were there before the insert, for every index i <= len.
C9_RoundTrip ==
    (last.kind = "delete" /\ last.rt /\ last.ix <= Len(last.rtPre)) =>
        /\ last.op # NoOp
        /\ PayloadsOf(seq[last.r]) = last.rtPre

\* C9 witness: a delete_at(i) right after insert_at(i, x), with i inside a
\* sequence that held two entries, has restored the payloads.
C9_Witness ==
    /\ last.kind = "delete" /\ last.rt /\ last.op # NoOp
    /\ Len(last.rtPre) = 2 /\ last.ix = 1
    /\ PayloadsOf(seq[last.r]) = last.rtPre

\* C10: an Insert whose identifier a replica holds, and a Delete whose
\* identifier it does not hold, leave the replica's entries unchanged.
C10_NoOps ==
    \A r \in Replicas, o \in ops :
        /\ (o.op = "Insert" /\ o.id \in Ids(seq[r])) => Apply(seq[r], o) = seq[r]
        /\ (o.op = "Delete" /\ o.id \notin Ids(seq[r])) => Apply(seq[r], o) = seq[r]

\* C10 witness: a replica holds an identifier under another dot and payload
\* than those of an emitted Insert, and a replica lacks the identifier of a
\* Delete it has not applied.
C10_Witness ==
    /\ \E r \in Replicas, o \in Inserts :
         \E i \in 1..Len(seq[r]) :
             /\ seq[r][i].id = o.id
             /\ seq[r][i].dot # o.dot /\ seq[r][i].c # o.c
    /\ \E r \in Replicas, d \in Deletes :
         d \notin applied[r] /\ d.id \notin Ids(seq[r])

\* A step made by a delete_index call of replica r: it is the only step that
\* leaves a "delete" call in last.
IsDeleteCall(r) == last' # last /\ last'.kind = "delete" /\ last'.r = r

C12_DotsCount ==
    /\ \A o \in ops : \E r \in Replicas : o.dot[1] = site[r]
    /\ \A r \in Replicas :
         LET mine == {o \in ops : o.dot[1] = site[r]}
         IN  /\ {o.dot : o \in mine} = {<<site[r], k>> : k \in 0..(counter[r] - 1)}
             /\ Cardinality(mine) = counter[r]
             /\ mine \subseteq applied[r]
    /\ \A o1, o2 \in ops :
         (o1.dot[1] = o2.dot[1] /\ <<o1.dot, o2.dot>> \in seen)
             => o1.dot[2] < o2.dot[2]
    /\ (last.kind \in {"insert", "delete"} /\ last.op # NoOp)
         => last.op.dot = <<site[last.r], counter[last.r] - 1>>

\* A replica has emitted two operations, an Insert and a Delete, after it had
\* applied two operations of the other site.
C12_Witness ==
    \E r \in Replicas :
        /\ counter[r] = 2
        /\ \E i, d \in ops :
             /\ i.op = "Insert" /\ d.op = "Delete"
             /\ i.dot = <<site[r], 0>> /\ d.dot = <<site[r], 1>>
             /\ Cardinality({x \in ops : x.dot[1] # site[r]
                                         /\ <<x.dot, i.dot>> \in seen}) = 2

\* Every identifier the allocator can return between p and q at the sites of
\* the replicas lies strictly between the sentinels.
AllocInside(p, q) ==
    LET D == TargetDepth(p, q)
        n == Min(BOUNDARY, Hi(q, D) - Lo(p, D) - 1)
    IN  \A self \in Sites, strat \in {"plus", "minus"}, step \in 1..n :
            LET a == AllocAt(p, q, D, self, strat, step)
            IN  Less(Lower, a) /\ Less(a, Upper)

\* C13: every identifier the allocator returns, and every identifier held by
\* a replica, is strictly between BEGIN and END and is neither of them, also
\* when a replica has site id 0, the site of the sentinels. Stated for the
\* identifiers emitted and held, and, after an insert, for every step and
\* strategy the allocator could be given between the new identifier and each
\* identifier known.
C13_InsideSentinels ==
    /\ \A o \in Inserts :
         Less(Lower, o.id) /\ Less(o.id, Upper) /\ o.id \notin {Lower, Upper}
    /\ \A r \in Replicas : \A i \in 1..Len(seq[r]) :
         Less(Lower, seq[r][i].id) /\ Less(seq[r][i].id, Upper)
    /\ ops = {} => AllocInside(Lower, Upper)
    /\ last.kind = "insert" =>
         \A x \in KnownIds :
             /\ Less(x, last.op.id) => AllocInside(x, last.op.id)
             /\ Less(last.op.id, x) => AllocInside(last.op.id, x)

\* The replica of site 0 emitted an identifier that starts with BEGIN's
\* position (0, 0) and one whose first index is next to END's.
C13_Witness ==
    /\ InvalidSite \in Sites
    /\ \E o1, o2 \in Inserts :
         /\ o1.dot[1] = InvalidSite /\ o2.dot[1] = InvalidSite
         /\ Len(o1.id) = 2 /\ o1.id[1] = Lower[1] /\ o1.id[2][2] = InvalidSite
         /\ Len(o2.id) = 1 /\ o2.id[1] = <<Upper[1][1] - 1, InvalidSite>>

\* C14: in every identifier emitted, the position at depth k has its index in
\* [0, width(k)), and the index of the last position, the leaf, is neither 0
\* nor width(k) - 1, whichever strategy and step made it, also when the upper
\* bound of the allocation was width(D) because q had no position at depth D.
C14_ReservedIndices ==
    \A o \in Inserts :
        /\ \A k \in 1..Len(o.id) :
             0 <= o.id[k][1] /\ o.id[k][1] < Width(k - 1)
        /\ o.id[Len(o.id)][1] # 0
        /\ o.id[Len(o.id)][1] # Width(Len(o.id) - 1) - 1

\* The operations replica r has applied that carry identifier x.
AppliedWithId(r, x) == {o \in applied[r] : o.id = x}

\* The Deletes replica r has applied.
AppliedDeletes(r) == {o \in applied[r] : o.op = "Delete"}

\* C15: a Delete of an identifier a replica does not hold leaves the replica
\* as it is and is not remembered: the Insert of that identifier, applied
\* afterwards, makes the identifier present, while Insert then Delete leaves
\* it absent. Stated for every emitted Delete and Insert against every
\* replica state reached, and for the replicas that did apply such a pair:
\* the one that applied the Delete first holds the identifier, the one that
\* applied the Insert first does not.
C15_DeleteNotRemembered ==
    /\ \A r \in Replicas, d \in Deletes :
         d.id \notin Ids(seq[r]) =>
             /\ Apply(seq[r], d) = seq[r]
             /\ \A i \in Inserts :
                  i.id = d.id =>
                      /\ i.id \in Ids(Apply(Apply(seq[r], d), i))
                      /\ i.id \notin Ids(Apply(Apply(seq[r], i), d))
    /\ \A r \in Replicas, i \in Inserts, d \in Deletes :
         (/\ d.id = i.id /\ d.remote = i.dot
          /\ AppliedWithId(r, i.id) = {i, d}
          /\ AppliedDeletes(r) = {d})
             => (i.id \in Ids(seq[r]) <=> ~causal[r])

\* Both replicas applied the same Insert and its Delete and nothing else with
\* that identifier: one the Insert first, and it does not hold the
\* identifier; the other the Delete first, and it holds it.
C15_Witness ==
    \E a, b \in Replicas, i \in Inserts, d \in Deletes :
        /\ d.id = i.id /\ d.remote = i.dot
        /\ AppliedWithId(a, i.id) = {i, d} /\ AppliedDeletes(a) = {d}
        /\ AppliedWithId(b, i.id) = {i, d} /\ AppliedDeletes(b) = {d}
        /\ causal[a] /\ i.id \notin Ids(seq[a])
        /\ ~causal[b] /\ i.id \in Ids(seq[b])
        /\ Len(seq[a]) >= 1

\* C16: delete_index(ix) with ix < len returns Delete{id, remote, dot} where
\* id and remote are the identifier and the dot of the entry at index ix
\* before the call and dot is the replica's dot before its counter was
\* incremented; after the call exactly that entry is gone: one entry fewer,
\* the others unchanged and in their order.
C16_DeleteAtIndex ==
    last.kind = "delete" =>
        IF last.ix >= Len(last.pre)
        THEN last.op = NoOp
        ELSE /\ last.op.op = "Delete"
             /\ last.op.id = last.pre[last.ix + 1].id
             /\ last.op.remote = last.pre[last.ix + 1].dot
             /\ last.op.dot = <<site[last.r], counter[last.r] - 1>>
             /\ Len(seq[last.r]) = Len(last.pre) - 1
             /\ seq[last.r] = VecRemove(last.pre, last.ix)

\* delete_index removed an entry that is neither the first nor the last, and
\* that another site had inserted.
C16_Witness ==
    /\ last.kind = "delete"
    /\ last.op # NoOp
    /\ last.ix >= 1
    /\ last.ix + 1 < Len(last.pre)
    /\ last.op.remote[1] # site[last.r]

\* The lower neighbour and the target depth of the allocation insert_index
\* made in the latest call.
LastPrev == PrevOf(last.pre, last.ix)
LastDepth == TargetDepth(LastPrev, NextOf(last.pre, last.ix))

\* The site of the last position of every emitted identifier is the site of
\* the operation's dot.
LastSiteIsDotSite == \A o \in Inserts : o.id[Len(o.id)][2] = o.dot[1]

DrawnSteps(p, q) == Steps(p, q) \cap (1..MaxStep)

\* A step made by an insert_index call of replica r.
IsInsertCall(r) ==
    last' # last /\ last'.kind \in {"insert", "panic"} /\ last'.r = r

\* C18: a replica starts with no strategy at any depth; a strategy once set
\* never changes; an allocation sets the strategy of its target depth when
\* that depth has none, sets or changes no other depth's, and places the new
\* index by the strategy stored for its target depth (plus: lo + step, minus:
\* hi - step, for a step the allocator draws); no other step touches the
\* strategies.
C18_StickyStrategy ==
    /\ \A r \in Replicas : DOMAIN strategy[r] = {}
    /\ [][\A r \in Replicas :
            /\ \A d \in DOMAIN strategy[r] :
                 d \in DOMAIN strategy'[r] /\ strategy'[r][d] = strategy[r][d]
            /\ IF IsInsertCall(r)
               THEN LET p == PrevOf(seq[r], last'.ix)
                        q == NextOf(seq[r], last'.ix)
                        D == TargetDepth(p, q)
                        new == last'.op.id[D + 1][1]
                    IN  /\ DOMAIN strategy'[r] = DOMAIN strategy[r] \cup {D}
                        /\ strategy'[r][D] = "plus" =>
                             new \in {Lo(p, D) + s : s \in DrawnSteps(p, q)}
                        /\ strategy'[r][D] = "minus" =>
                             new \in {Hi(q, D) - s : s \in DrawnSteps(p, q)}
               ELSE strategy'[r] = strategy[r]]_vars

\* A replica holds different strategies at depths 0 and 1 and has just
\* allocated at depth 0 for the second time, by the stored strategy.
C18_Witness ==
    /\ last.kind = "insert"
    /\ Len(last.op.id) = 1
    /\ {0, 1} \subseteq DOMAIN strategy[last.r]
    /\ strategy[last.r][0] # strategy[last.r][1]
    /\ Cardinality({o \in Inserts : o.dot[1] = site[last.r]
                                    /\ Len(o.id) = 1}) >= 2
    /\ \E o \in Inserts : o.dot[1] = site[last.r] /\ Len(o.id) = 2

\* The latest call was a local_delete of the older implementation.
LastIsLocalDelete ==
    last.kind \in {"delete", "panic"} /\ last.op.op # "Insert"

\* The latest call returned a Delete of the element at ix, or of the last
\* element when ix >= len, removed exactly that element and stamped the
\* operation with the clock before its increment.
DeletedClamped ==
    LET n == Len(last.pre)
        k == IF last.ix >= n THEN n - 1 ELSE last.ix
    IN  /\ last.kind = "delete"
        /\ last.op.op = "Delete"
        /\ last.op.id = last.pre[k + 1].id
        /\ last.op.remote = last.pre[k + 1].dot
        /\ last.op.dot = <<site[last.r], counter[last.r] - 1>>
        /\ Len(seq[last.r]) = n - 1
        /\ seq[last.r] = VecRemove(last.pre, k)

C20_DeleteByIdentifier ==
    [][\A r \in Replicas, d \in Deletes :
          (/\ d \notin applied[r]
           /\ applied'[r] = applied[r] \cup {d}
           /\ d.id \in Ids(seq[r]))
              => /\ seq'[r] = VecRemove(seq[r], IndexOf(seq[r], d.id) - 1)
                 /\ d.id \notin Ids(seq'[r])]_vars

\* A replica applied an Insert and a Delete of the same identifier emitted at
\* the other site, the Delete naming the dot of another Insert, and no longer
\* holds the identifier: the Delete removed the entry of an Insert it does not
\* name.
C20_Witness ==
    \E r \in Replicas, i \in Inserts, d \in Deletes :
        /\ d.id = i.id
        /\ d.remote # i.dot
        /\ d.dot[1] # site[r]
        /\ AppliedWithId(r, i.id) = {i, d}
        /\ i.id \notin Ids(seq[r])

====
